---------------------------- MODULE Spec2Model ----------------------------
(* Model of rbx_reflection (src/rbx_reflection/src/lib.rs): the reflection    *)
(* database (ReflectionDatabase / ClassDescriptor / PropertyDescriptor), the  *)
(* Scriptability enum, and the two bit-flag tag sets generated by the         *)
(* bitterflag! macro (InstanceTags, PropertyTags) with their from_str         *)
(* parsers and their IntoIterator implementation.                             *)
(*                                                                            *)
(* Strings that the code inspects character by character (tag names) are      *)
(* sequences of one-character strings; an Option is a sequence of length at   *)
(* most one (<<>> is None, <<x>> is Some(x)); a HashMap is a function whose    *)
(* domain is the set of keys present.                                          *)
EXTENDS Integers, Sequences, FiniteSets, TLC

VARIABLES
    kind,        \* the tag kind the caller works with
    v,           \* a flag-set value of that kind (its bits)
    w,           \* a second flag-set value of the same kind
    outV,        \* Option: the flags collected from v.into_iter()
    outW,        \* Option: the flags collected from w.into_iter()
    outU,        \* Option: the flags collected from (v | w).into_iter()
    iters,       \* the live iterators over v: id -> Option of iterator state
    completed,   \* the sequences produced by the iterations of v run to the end
    s,           \* the string handed to from_str
    res,         \* the Result of from_str
    label,       \* Option: the name the flag type prints for the parsed flag
    db,          \* the ReflectionDatabase under construction
    ops,         \* number of mutations applied to db so far
    last,        \* the last mutation applied to db, with its arguments
    written,     \* per key path, the value of the last upsert (history)
    found,       \* the outcome of the last lookup
    snap,        \* Option: the encoded snapshot of db
    dec          \* Option: the Result of decoding snap

tagVars == <<kind, v, w, outV, outW, outU, iters, completed>>
parseVars == <<s, res, label>>
dbVars == <<db, ops, last, written, found, snap, dec>>
vars == <<kind, v, w, outV, outW, outU, iters, completed, s, res, label,
          db, ops, last, written, found, snap, dec>>

-----------------------------------------------------------------------------
(* Bounds *)

MaxIters == 2

-----------------------------------------------------------------------------
(* Option *)

None == <<>>

Some(x) == <<x>>

IsSome(o) == Len(o) = 1

-----------------------------------------------------------------------------
(* Bit operations on u32 flag words *)

RECURSIVE BitAnd(_, _)
BitAnd(a, b) ==
    IF a = 0 \/ b = 0 THEN 0
    ELSE (a % 2) * (b % 2) + 2 * BitAnd(a \div 2, b \div 2)

RECURSIVE BitOr(_, _)
BitOr(a, b) ==
    IF a = 0 THEN b
    ELSE IF b = 0 THEN a
    ELSE (IF a % 2 = 1 \/ b % 2 = 1 THEN 1 ELSE 0) + 2 * BitOr(a \div 2, b \div 2)

-----------------------------------------------------------------------------
(* The two tag vocabularies, as declared through bitterflag! *)

Kinds == {"InstanceTags", "PropertyTags"}

InstanceTags_DEPRECATED == 1

InstanceTags_NOT_BROWSABLE == 2

InstanceTags_NOT_CREATABLE == 4

InstanceTags_NOT_REPLICATED == 8

InstanceTags_PLAYER_REPLICATED == 16

InstanceTags_SERVICE == 32

InstanceTags_SETTINGS == 64

InstanceTags_USER_SETTINGS == 128

PropertyTags_DEPRECATED == 1

PropertyTags_HIDDEN == 2

PropertyTags_NOT_BROWSABLE == 4

PropertyTags_NOT_REPLICATED == 8

PropertyTags_NOT_SCRIPTABLE == 16

PropertyTags_READ_ONLY == 32

InstanceTagsDecl ==
    << <<<<"D", "E", "P", "R", "E", "C", "A", "T", "E", "D">>, InstanceTags_DEPRECATED>>,
       <<<<"N", "O", "T", "_", "B", "R", "O", "W", "S", "A", "B", "L", "E">>, InstanceTags_NOT_BROWSABLE>>,
       <<<<"N", "O", "T", "_", "C", "R", "E", "A", "T", "A", "B", "L", "E">>, InstanceTags_NOT_CREATABLE>>,
       <<<<"N", "O", "T", "_", "R", "E", "P", "L", "I", "C", "A", "T", "E", "D">>, InstanceTags_NOT_REPLICATED>>,
       <<<<"P", "L", "A", "Y", "E", "R", "_", "R", "E", "P", "L", "I", "C", "A", "T", "E", "D">>, InstanceTags_PLAYER_REPLICATED>>,
       <<<<"S", "E", "R", "V", "I", "C", "E">>, InstanceTags_SERVICE>>,
       <<<<"S", "E", "T", "T", "I", "N", "G", "S">>, InstanceTags_SETTINGS>>,
       <<<<"U", "S", "E", "R", "_", "S", "E", "T", "T", "I", "N", "G", "S">>, InstanceTags_USER_SETTINGS>> >>

PropertyTagsDecl ==
    << <<<<"D", "E", "P", "R", "E", "C", "A", "T", "E", "D">>, PropertyTags_DEPRECATED>>,
       <<<<"H", "I", "D", "D", "E", "N">>, PropertyTags_HIDDEN>>,
       <<<<"N", "O", "T", "_", "B", "R", "O", "W", "S", "A", "B", "L", "E">>, PropertyTags_NOT_BROWSABLE>>,
       <<<<"N", "O", "T", "_", "R", "E", "P", "L", "I", "C", "A", "T", "E", "D">>, PropertyTags_NOT_REPLICATED>>,
       <<<<"N", "O", "T", "_", "S", "C", "R", "I", "P", "T", "A", "B", "L", "E">>, PropertyTags_NOT_SCRIPTABLE>>,
       <<<<"R", "E", "A", "D", "_", "O", "N", "L", "Y">>, PropertyTags_READ_ONLY>> >>

\* mutant: the flags of two arms exchanged
InstanceTagsArmsSwapped ==
    << <<<<"D", "e", "p", "r", "e", "c", "a", "t", "e", "d">>, InstanceTags_DEPRECATED>>,
       <<<<"N", "o", "t", "B", "r", "o", "w", "s", "a", "b", "l", "e">>, InstanceTags_NOT_BROWSABLE>>,
       <<<<"N", "o", "t", "C", "r", "e", "a", "t", "a", "b", "l", "e">>, InstanceTags_NOT_CREATABLE>>,
       <<<<"N", "o", "t", "R", "e", "p", "l", "i", "c", "a", "t", "e", "d">>, InstanceTags_NOT_REPLICATED>>,
       <<<<"P", "l", "a", "y", "e", "r", "R", "e", "p", "l", "i", "c", "a", "t", "e", "d">>, InstanceTags_PLAYER_REPLICATED>>,
       <<<<"S", "e", "r", "v", "i", "c", "e">>, InstanceTags_SETTINGS>>,
       <<<<"S", "e", "t", "t", "i", "n", "g", "s">>, InstanceTags_SERVICE>>,
       <<<<"U", "s", "e", "r", "S", "e", "t", "t", "i", "n", "g", "s">>, InstanceTags_USER_SETTINGS>> >>

\* the match arms of InstanceTags::from_str
InstanceTagsArms ==
    << <<<<"D", "e", "p", "r", "e", "c", "a", "t", "e", "d">>, InstanceTags_DEPRECATED>>,
       <<<<"N", "o", "t", "B", "r", "o", "w", "s", "a", "b", "l", "e">>, InstanceTags_NOT_BROWSABLE>>,
       <<<<"N", "o", "t", "C", "r", "e", "a", "t", "a", "b", "l", "e">>, InstanceTags_NOT_CREATABLE>>,
       <<<<"N", "o", "t", "R", "e", "p", "l", "i", "c", "a", "t", "e", "d">>, InstanceTags_NOT_REPLICATED>>,
       <<<<"P", "l", "a", "y", "e", "r", "R", "e", "p", "l", "i", "c", "a", "t", "e", "d">>, InstanceTags_PLAYER_REPLICATED>>,
       <<<<"S", "e", "r", "v", "i", "c", "e">>, InstanceTags_SERVICE>>,
       <<<<"S", "e", "t", "t", "i", "n", "g", "s">>, InstanceTags_SETTINGS>>,
       <<<<"U", "s", "e", "r", "S", "e", "t", "t", "i", "n", "g", "s">>, InstanceTags_USER_SETTINGS>> >>

\* the match arms of PropertyTags::from_str
PropertyTagsArms ==
    << <<<<"D", "e", "p", "r", "e", "c", "a", "t", "e", "d">>, PropertyTags_DEPRECATED>>,
       <<<<"H", "i", "d", "d", "e", "n">>, PropertyTags_HIDDEN>>,
       <<<<"N", "o", "t", "B", "r", "o", "w", "s", "a", "b", "l", "e">>, PropertyTags_NOT_BROWSABLE>>,
       <<<<"N", "o", "t", "R", "e", "p", "l", "i", "c", "a", "t", "e", "d">>, PropertyTags_NOT_REPLICATED>>,
       <<<<"N", "o", "t", "S", "c", "r", "i", "p", "t", "a", "b", "l", "e">>, PropertyTags_NOT_SCRIPTABLE>>,
       <<<<"R", "e", "a", "d", "O", "n", "l", "y">>, PropertyTags_READ_ONLY>> >>

Decl(k) == IF k = "InstanceTags" THEN InstanceTagsDecl ELSE PropertyTagsDecl

Arms(k) == IF k = "InstanceTags" THEN InstanceTagsArms ELSE PropertyTagsArms

\* static ALL_TAGS: the declared constants, in declaration order
ALL_TAGS(k) == [i \in 1..Len(Decl(k)) |-> Decl(k)[i][2]]

RECURSIVE UnionUpTo(_, _)
UnionUpTo(tags, n) ==
    IF n = 0 THEN 0 ELSE BitOr(UnionUpTo(tags, n - 1), tags[n])

\* $struct_name::all(): every declared bit
all(k) == UnionUpTo(ALL_TAGS(k), Len(ALL_TAGS(k)))

\* the values a flag set of kind k can hold
FlagSets(k) == 0..all(k)

\* mutant: the filter closure with receiver and argument exchanged
containsSwapped(self, other) == BitAnd(self, other) = self

\* $struct_name::contains
contains(self, other) == BitAnd(self, other) = other

\* mutant: exclusive or in place of or
BitXorUnion(a, b) == BitOr(a, b) - BitAnd(a, b)

\* $struct_name | $struct_name
union(a, b) == BitOr(a, b)

-----------------------------------------------------------------------------
(* IntoIterator for a flag set: ALL_TAGS.iter().cloned().filter(contains)    *)
(* The iterator owns a copy of the flag set (move closure over a Copy value) *)
(* and the position of the slice iterator.                                   *)

into_iter(self) == [self |-> self, pos |-> 0]

RECURSIVE FirstMatch(_, _, _)
FirstMatch(tags, self, j) ==
    IF j > Len(tags) THEN 0
    ELSE IF contains(self, tags[j]) THEN j
    ELSE FirstMatch(tags, self, j + 1)

\* $iter_name::next: advance the slice iterator to the next flag that passes
\* the filter; None once the slice is exhausted
next(k, it) ==
    LET j == FirstMatch(ALL_TAGS(k), it.self, it.pos + 1) IN
    IF j = 0
    THEN [item |-> None, it |-> [it EXCEPT !.pos = Len(ALL_TAGS(k))]]
    ELSE [item |-> Some(ALL_TAGS(k)[j]), it |-> [it EXCEPT !.pos = j]]

RECURSIVE Drain(_, _)
Drain(k, it) ==
    LET r == next(k, it) IN
    IF IsSome(r.item) THEN <<r.item[1]>> \o Drain(k, r.it) ELSE <<>>

\* for flag in value { .. } run to the end
Collect(k, value) == Drain(k, into_iter(value))

-----------------------------------------------------------------------------
(* FromStr for a tag kind: the match arms in source order *)

\* str::to_owned: a fresh String with the same characters
to_owned(value) == [i \in 1..Len(value) |-> value[i]]

Ok(flag) == [tag |-> "Ok", flag |-> flag, err |-> <<>>]

Err(str) == [tag |-> "Err", flag |-> 0, err |-> str]

Unparsed == [tag |-> "Unparsed", flag |-> 0, err |-> <<>>]

RECURSIVE MatchArm(_, _, _)
MatchArm(arms, value, i) ==
    IF i > Len(arms) THEN 0
    ELSE IF arms[i][1] = value THEN i
    ELSE MatchArm(arms, value, i + 1)

\* mutant: the error built from an empty string
from_strLosesInput(k, value) ==
    LET i == MatchArm(Arms(k), value, 1) IN
    IF i = 0 THEN Err(<<>>) ELSE Ok(Arms(k)[i][2])

\* mutant: the arms of the other tag kind
from_strOtherKind(k, value) ==
    LET a == IF k = "InstanceTags" THEN PropertyTagsArms ELSE InstanceTagsArms
        i == MatchArm(a, value, 1) IN
    IF i = 0 THEN Err(to_owned(value)) ELSE Ok(a[i][2])

from_str(k, value) ==
    LET i == MatchArm(Arms(k), value, 1) IN
    IF i = 0 THEN Err(to_owned(value)) ELSE Ok(Arms(k)[i][2])

RECURSIVE JoinNames(_, _, _)
JoinNames(decl, bits, i) ==
    IF i > Len(decl) THEN <<>>
    ELSE LET rest == JoinNames(decl, bits, i + 1) IN
         IF contains(bits, decl[i][2])
         THEN IF rest = <<>> THEN decl[i][1]
              ELSE decl[i][1] \o <<" ", "|", " ">> \o rest
         ELSE rest

\* the name the flag type gives a value: the declared constant identifiers
\* of the flags it contains (the Debug implementation bitflags! derives)
DebugName(k, bits) ==
    IF bits = 0 THEN <<"(", "e", "m", "p", "t", "y", ")">>
    ELSE JoinNames(Decl(k), bits, 1)

-----------------------------------------------------------------------------
(* Scriptability: the variants in declaration order; a value is the index of *)
(* its variant                                                               *)

\* mutant: the enum without its last variant
ScriptabilityVariantsShort == <<"None", "ReadWrite", "Read", "Write">>

ScriptabilityVariants == <<"None", "ReadWrite", "Read", "Write", "Custom">>

Scriptability == 1..Len(ScriptabilityVariants)

Scriptability_None == 1

-----------------------------------------------------------------------------
(* HashMap<Cow<str>, V> *)

HashMap_new == <<>>

insert(m, key, value) ==
    [x \in DOMAIN m \cup {key} |-> IF x = key THEN value ELSE m[x]]

get(m, key) == IF key \in DOMAIN m THEN Some(m[key]) ELSE None

-----------------------------------------------------------------------------
(* Constructors *)

ReflectionDatabase_new == [version |-> <<0, 0, 0, 0>>, classes |-> HashMap_new]

\* mutant: a class that starts as its own superclass
ClassDescriptor_newSelfParent(name) ==
    [name |-> name, superclass |-> Some(name),
     properties |-> HashMap_new, default_properties |-> HashMap_new]

ClassDescriptor_new(name) ==
    [name |-> name, superclass |-> None,
     properties |-> HashMap_new, default_properties |-> HashMap_new]

PropertyDescriptor_new(name) ==
    [name |-> name, scriptability |-> Scriptability_None]

-----------------------------------------------------------------------------
(* The domains the loader draws its arguments from *)

MaxOps == 3

MaxVersion == 1

MaxPayload == 2

ClassKeys == {"Part", "BasePart"}

PropKeys == {"Size", "Color"}

\* rbx_types::Variant values: a type tag and a payload
Variants == {<<"Float32", n>> : n \in 1..MaxPayload}

-----------------------------------------------------------------------------
(* Serialize / Deserialize (serde derive) into a self-describing form        *)

EncStr(x) == [t |-> "str", val |-> x]

EncU32(n) == [t |-> "u32", val |-> n]

EncSeq(q) == [t |-> "seq", val |-> q]

EncMap(m) == [t |-> "map", val |-> m]

EncStruct(entries) == [t |-> "struct", val |-> entries]

EncUnitVariant(name) == [t |-> "variant", val |-> name]

EncNewtypeVariant(name, payload) == [t |-> "newtype", val |-> <<name, payload>>]

EncNull == [t |-> "null", val |-> 0]

DOk(x) == [ok |-> TRUE, val |-> <<x>>]

DErr == [ok |-> FALSE, val |-> <<>>]

SerializeVariant(x) == EncNewtypeVariant(x[1], EncU32(x[2]))

DeserializeVariant(e) ==
    IF e.t = "newtype" THEN
        IF e.val[2].t = "u32" THEN DOk(<<e.val[1], e.val[2].val>>) ELSE DErr
    ELSE DErr

SerializeScriptability(sc) == EncUnitVariant(ScriptabilityVariants[sc])

DeserializeScriptability(e) ==
    IF e.t = "variant" THEN
        IF \E i \in Scriptability : ScriptabilityVariants[i] = e.val
        THEN DOk(CHOOSE i \in Scriptability : ScriptabilityVariants[i] = e.val)
        ELSE DErr
    ELSE DErr

DeserializeStr(e) == IF e.t = "str" THEN DOk(e.val) ELSE DErr

RECURSIVE FieldFrom(_, _, _)
FieldFrom(entries, name, i) ==
    IF i > Len(entries) THEN None
    ELSE IF entries[i][1] = name THEN Some(entries[i][2])
    ELSE FieldFrom(entries, name, i + 1)

\* the value the encoded struct carries for a field, None when it is omitted
Field(e, name) == FieldFrom(e.val, name, 1)

SerializeProperty(p) ==
    EncStruct(<< <<"name", EncStr(p.name)>>,
                 <<"scriptability", SerializeScriptability(p.scriptability)>> >>)

DeserializeProperty(e) ==
    IF e.t = "struct" THEN
        LET n == Field(e, "name")
            sc == Field(e, "scriptability") IN
        IF IsSome(n) /\ IsSome(sc) THEN
            LET dn == DeserializeStr(n[1])
                dsc == DeserializeScriptability(sc[1]) IN
            IF dn.ok /\ dsc.ok
            THEN DOk([name |-> dn.val[1], scriptability |-> dsc.val[1]])
            ELSE DErr
        ELSE DErr
    ELSE DErr

\* HashMap<Cow<str>, PropertyDescriptor>
SerializeProperties(m) == EncMap([k \in DOMAIN m |-> SerializeProperty(m[k])])

DeserializeProperties(e) ==
    IF e.t = "map" THEN
        IF \A k \in DOMAIN e.val : DeserializeProperty(e.val[k]).ok
        THEN DOk([k \in DOMAIN e.val |-> DeserializeProperty(e.val[k]).val[1]])
        ELSE DErr
    ELSE DErr

\* HashMap<Cow<str>, Variant>
SerializeDefaults(m) == EncMap([k \in DOMAIN m |-> SerializeVariant(m[k])])

DeserializeDefaults(e) ==
    IF e.t = "map" THEN
        IF \A k \in DOMAIN e.val : DeserializeVariant(e.val[k]).ok
        THEN DOk([k \in DOMAIN e.val |-> DeserializeVariant(e.val[k]).val[1]])
        ELSE DErr
    ELSE DErr

\* mutant: superclass without skip_serializing_if, an absent one written as null
SerializeClassNoSkip(c) ==
    EncStruct(<< <<"name", EncStr(c.name)>>,
                 <<"superclass", IF c.superclass = None THEN EncNull
                                 ELSE EncStr(c.superclass[1])>>,
                 <<"properties", SerializeProperties(c.properties)>>,
                 <<"default_properties",
                   SerializeDefaults(c.default_properties)>> >>)

\* superclass: skip_serializing_if = "Option::is_none"
SerializeClass(c) ==
    EncStruct(<< <<"name", EncStr(c.name)>> >>
              \o (IF c.superclass = None THEN <<>>
                  ELSE << <<"superclass", EncStr(c.superclass[1])>> >>)
              \o << <<"properties", SerializeProperties(c.properties)>>,
                    <<"default_properties",
                      SerializeDefaults(c.default_properties)>> >>)

\* Option<Cow<str>>: null is None, a string is Some
DeserializeOptionStr(e) ==
    IF e.t = "null" THEN DOk(None)
    ELSE IF e.t = "str" THEN DOk(Some(e.val))
    ELSE DErr

\* superclass: serde(default), an omitted field is Option::default()
DeserializeClass(e) ==
    IF e.t = "struct" THEN
        LET n == Field(e, "name")
            sup == Field(e, "superclass")
            ps == Field(e, "properties")
            ds == Field(e, "default_properties") IN
        IF IsSome(n) /\ IsSome(ps) /\ IsSome(ds) THEN
            LET dn == DeserializeStr(n[1])
                dsup == IF IsSome(sup) THEN DeserializeOptionStr(sup[1]) ELSE DOk(None)
                dps == DeserializeProperties(ps[1])
                dds == DeserializeDefaults(ds[1]) IN
            IF dn.ok /\ dsup.ok /\ dps.ok /\ dds.ok
            THEN DOk([name |-> dn.val[1], superclass |-> dsup.val[1],
                      properties |-> dps.val[1], default_properties |-> dds.val[1]])
            ELSE DErr
        ELSE DErr
    ELSE DErr

\* HashMap<Cow<str>, ClassDescriptor>
SerializeClasses(m) == EncMap([k \in DOMAIN m |-> SerializeClass(m[k])])

DeserializeClasses(e) ==
    IF e.t = "map" THEN
        IF \A k \in DOMAIN e.val : DeserializeClass(e.val[k]).ok
        THEN DOk([k \in DOMAIN e.val |-> DeserializeClass(e.val[k]).val[1]])
        ELSE DErr
    ELSE DErr

SerializeVersion(ver) == EncSeq([i \in 1..4 |-> EncU32(ver[i])])

DeserializeVersion(e) ==
    IF e.t = "seq" THEN
        IF Len(e.val) = 4 THEN
            IF \A i \in 1..4 : e.val[i].t = "u32"
            THEN DOk([i \in 1..4 |-> e.val[i].val])
            ELSE DErr
        ELSE DErr
    ELSE DErr

SerializeDatabase(d) ==
    EncStruct(<< <<"version", SerializeVersion(d.version)>>,
                 <<"classes", SerializeClasses(d.classes)>> >>)

DeserializeDatabase(e) ==
    IF e.t = "struct" THEN
        LET ver == Field(e, "version")
            cs == Field(e, "classes") IN
        IF IsSome(ver) /\ IsSome(cs) THEN
            LET dv == DeserializeVersion(ver[1])
                dcs == DeserializeClasses(cs[1]) IN
            IF dv.ok /\ dcs.ok
            THEN DOk([version |-> dv.val[1], classes |-> dcs.val[1]])
            ELSE DErr
        ELSE DErr
    ELSE DErr

-----------------------------------------------------------------------------
(* The strings a loader may hand to from_str *)

UpperCase == <<"A", "B", "C", "D", "E", "G", "H", "I", "L", "N", "O", "P", "R",
               "S", "T", "U", "V", "W", "Y">>

LowerCase == <<"a", "b", "c", "d", "e", "g", "h", "i", "l", "n", "o", "p", "r",
               "s", "t", "u", "v", "w", "y">>

ToLower(c) ==
    IF \E i \in 1..Len(UpperCase) : UpperCase[i] = c
    THEN LowerCase[CHOOSE i \in 1..Len(UpperCase) : UpperCase[i] = c]
    ELSE c

LowerFirst(str) == IF str = <<>> THEN str ELSE <<ToLower(str[1])>> \o Tail(str)

ArmNames(k) == {Arms(k)[i][1] : i \in 1..Len(Arms(k))}

DeclNames(k) == {Decl(k)[i][1] : i \in 1..Len(Decl(k))}

Inputs ==
    LET base == UNION {ArmNames(k) \cup DeclNames(k) : k \in Kinds} IN
    base \cup {LowerFirst(n) : n \in base} \cup {n \o <<" ">> : n \in base}
         \cup {<<>>}

-----------------------------------------------------------------------------
(* Initial states *)

NoOp == [op |-> "none", class |-> "", key |-> "", name |-> "", arg |-> None]

NoLookup == [q |-> "none", class |-> "", key |-> "", outcome |-> None]

NothingWritten ==
    [class |-> [c \in ClassKeys |-> None],
     prop |-> [p \in ClassKeys \X PropKeys |-> None],
     def |-> [p \in ClassKeys \X PropKeys |-> None]]

TagIdle ==
    /\ outV = None /\ outW = None /\ outU = None
    /\ iters = [i \in 1..MaxIters |-> None]
    /\ completed = {}

ParseIdle == s = <<>> /\ res = Unparsed /\ label = None

DbInit ==
    /\ db = ReflectionDatabase_new
    /\ ops = 0
    /\ last = NoOp
    /\ written = NothingWritten
    /\ found = NoLookup
    /\ snap = None
    /\ dec = None

-----------------------------------------------------------------------------
(* Iterating whole flag sets: v, w and v | w *)

InitUnion ==
    /\ kind \in Kinds
    /\ v \in FlagSets(kind)
    /\ w \in FlagSets(kind)
    /\ TagIdle /\ ParseIdle /\ DbInit

IterateV ==
    /\ outV = None
    /\ outV' = Some(Collect(kind, v))
    /\ UNCHANGED <<kind, v, w, outW, outU, iters, completed, parseVars, dbVars>>

IterateW ==
    /\ outW = None
    /\ outW' = Some(Collect(kind, w))
    /\ UNCHANGED <<kind, v, w, outV, outU, iters, completed, parseVars, dbVars>>

IterateUnion ==
    /\ outU = None
    /\ outU' = Some(Collect(kind, union(v, w)))
    /\ UNCHANGED <<kind, v, w, outV, outW, iters, completed, parseVars, dbVars>>

NextUnion == IterateV \/ IterateW \/ IterateUnion

SpecUnion == InitUnion /\ [][NextUnion]_vars

-----------------------------------------------------------------------------
(* Stepping iterators over v one item at a time *)

InitIter ==
    /\ kind \in Kinds
    /\ v \in FlagSets(kind)
    /\ w = 0
    /\ TagIdle /\ ParseIdle /\ DbInit

\* v.into_iter(): v is Copy, the iterator gets its own copy; an iterator
\* already held under the same name is dropped
IntoIter(i) ==
    /\ iters' = [iters EXCEPT ![i] =
                    Some([it |-> into_iter(v), out |-> <<>>, done |-> FALSE])]
    /\ UNCHANGED <<kind, v, w, outV, outW, outU, completed, parseVars, dbVars>>

\* mutant: an iteration that clears each flag it yields from the source
IterNextDraining(i) ==
    /\ IsSome(iters[i])
    /\ ~iters[i][1].done
    /\ LET cur == iters[i][1]
           r == next(kind, cur.it) IN
       IF IsSome(r.item)
       THEN /\ iters' = [iters EXCEPT ![i] =
                            Some([it |-> r.it, out |-> Append(cur.out, r.item[1]),
                                  done |-> FALSE])]
            /\ v' = v - BitAnd(v, r.item[1])
            /\ UNCHANGED completed
       ELSE /\ iters' = [iters EXCEPT ![i] =
                            Some([it |-> r.it, out |-> cur.out, done |-> TRUE])]
            /\ completed' = completed \cup {cur.out}
            /\ UNCHANGED v
    /\ UNCHANGED <<kind, w, outV, outW, outU, parseVars, dbVars>>

\* iterator.next(); the caller appends the item to what it has seen so far
IterNext(i) ==
    /\ IsSome(iters[i])
    /\ ~iters[i][1].done
    /\ LET cur == iters[i][1]
           r == next(kind, cur.it) IN
       IF IsSome(r.item)
       THEN /\ iters' = [iters EXCEPT ![i] =
                            Some([it |-> r.it, out |-> Append(cur.out, r.item[1]),
                                  done |-> FALSE])]
            /\ UNCHANGED completed
       ELSE /\ iters' = [iters EXCEPT ![i] =
                            Some([it |-> r.it, out |-> cur.out, done |-> TRUE])]
            /\ completed' = completed \cup {cur.out}
    /\ UNCHANGED <<kind, v, w, outV, outW, outU, parseVars, dbVars>>

NextIter ==
    \/ \E i \in 1..MaxIters : IntoIter(i)
    \/ \E i \in 1..MaxIters : IterNext(i)

SpecIter == InitIter /\ [][NextIter]_vars

-----------------------------------------------------------------------------
(* Parsing a tag name and printing the flag it gave *)

InitParse ==
    /\ kind \in Kinds
    /\ s \in Inputs
    /\ res = Unparsed /\ label = None
    /\ v = 0 /\ w = 0
    /\ TagIdle /\ DbInit

\* kind::from_str(s)
Parse ==
    /\ res.tag = "Unparsed"
    /\ res' = from_str(kind, s)
    /\ UNCHANGED <<s, label, tagVars, dbVars>>

\* format!("{:?}", flag) on a parsed flag
Label ==
    /\ res.tag = "Ok"
    /\ label = None
    /\ label' = Some(DebugName(kind, res.flag))
    /\ UNCHANGED <<s, res, tagVars, dbVars>>

NextParse == Parse \/ Label

SpecParse == InitParse /\ [][NextParse]_vars

-----------------------------------------------------------------------------
(* Building, querying and snapshotting a database *)

InitDb ==
    /\ kind = "InstanceTags"
    /\ v = 0 /\ w = 0
    /\ TagIdle /\ ParseIdle /\ DbInit

Building == ops < MaxOps /\ snap = None

\* let mut c = ClassDescriptor::new(name); c.superclass = sup (when given);
\* db.classes.insert(key, c)
InsertClass(key, name, sup) ==
    /\ Building
    /\ LET fresh == ClassDescriptor_new(name)
           c == IF IsSome(sup) THEN [fresh EXCEPT !.superclass = sup] ELSE fresh IN
       db' = [db EXCEPT !.classes = insert(db.classes, key, c)]
    /\ ops' = ops + 1
    /\ last' = [op |-> "InsertClass", class |-> key, key |-> key, name |-> name,
                arg |-> sup]
    /\ written' = [class |-> [written.class EXCEPT ![key] =
                                 Some([name |-> name, superclass |-> sup])],
                   prop |-> [p \in ClassKeys \X PropKeys |->
                                 IF p[1] = key THEN None ELSE written.prop[p]],
                   def |-> [p \in ClassKeys \X PropKeys |->
                                 IF p[1] = key THEN None ELSE written.def[p]]]
    /\ found' = NoLookup
    /\ UNCHANGED <<snap, dec, tagVars, parseVars>>

\* let mut p = PropertyDescriptor::new(name); p.scriptability = sc (when
\* given); db.classes.get_mut(c).properties.insert(key, p)
InsertProperty(c, key, name, sc) ==
    /\ Building
    /\ c \in DOMAIN db.classes
    /\ LET fresh == PropertyDescriptor_new(name)
           p == IF IsSome(sc) THEN [fresh EXCEPT !.scriptability = sc[1]] ELSE fresh IN
       /\ db' = [db EXCEPT !.classes[c].properties =
                     insert(db.classes[c].properties, key, p)]
       /\ written' = [written EXCEPT !.prop[<<c, key>>] =
                         Some([name |-> name,
                               scriptability |-> IF IsSome(sc) THEN sc[1]
                                                 ELSE Scriptability_None])]
    /\ ops' = ops + 1
    /\ last' = [op |-> "InsertProperty", class |-> c, key |-> key, name |-> name,
                arg |-> sc]
    /\ found' = NoLookup
    /\ UNCHANGED <<snap, dec, tagVars, parseVars>>

\* db.classes.get_mut(c).default_properties.insert(key, value)
SetDefault(c, key, value) ==
    /\ Building
    /\ c \in DOMAIN db.classes
    /\ db' = [db EXCEPT !.classes[c].default_properties =
                  insert(db.classes[c].default_properties, key, value)]
    /\ written' = [written EXCEPT !.def[<<c, key>>] = Some(value)]
    /\ ops' = ops + 1
    /\ last' = [op |-> "SetDefault", class |-> c, key |-> key, name |-> "",
                arg |-> Some(value)]
    /\ found' = NoLookup
    /\ UNCHANGED <<snap, dec, tagVars, parseVars>>

\* db.version[i] = n
SetVersion(i, n) ==
    /\ Building
    /\ db.version[i] # n
    /\ db' = [db EXCEPT !.version[i] = n]
    /\ ops' = ops + 1
    /\ last' = [op |-> "SetVersion", class |-> "", key |-> "", name |-> "",
                arg |-> Some(n)]
    /\ found' = NoLookup
    /\ UNCHANGED <<written, snap, dec, tagVars, parseVars>>

\* mutant: a property lookup that falls back to the superclass
property_lookupInherited(d, c, key) ==
    LET cl == get(d.classes, c) IN
    IF IsSome(cl) THEN
        LET own == get(cl[1].properties, key)
            sup == cl[1].superclass IN
        IF IsSome(own) THEN own
        ELSE IF IsSome(sup) THEN
            IF IsSome(get(d.classes, sup[1]))
            THEN get(get(d.classes, sup[1])[1].properties, key)
            ELSE None
        ELSE None
    ELSE None

\* db.classes.get(c).and_then(|cl| cl.properties.get(key))
property_lookup(d, c, key) ==
    LET cl == get(d.classes, c) IN
    IF IsSome(cl) THEN get(cl[1].properties, key) ELSE None

\* db.classes.get(c).and_then(|cl| cl.default_properties.get(key))
default_lookup(d, c, key) ==
    LET cl == get(d.classes, c) IN
    IF IsSome(cl) THEN get(cl[1].default_properties, key) ELSE None

\* the borrow a lookup returns ends before the next mutation, which is why
\* every mutation clears found; readers query the database being built, the
\* snapshot is taken once they are done
LookupClass(c) ==
    /\ snap = None
    /\ found' = [q |-> "class", class |-> c, key |-> c, outcome |-> get(db.classes, c)]
    /\ UNCHANGED <<db, ops, last, written, snap, dec, tagVars, parseVars>>

LookupProperty(c, key) ==
    /\ snap = None
    /\ found' = [q |-> "prop", class |-> c, key |-> key,
                 outcome |-> property_lookup(db, c, key)]
    /\ UNCHANGED <<db, ops, last, written, snap, dec, tagVars, parseVars>>

LookupDefault(c, key) ==
    /\ snap = None
    /\ found' = [q |-> "default", class |-> c, key |-> key,
                 outcome |-> default_lookup(db, c, key)]
    /\ UNCHANGED <<db, ops, last, written, snap, dec, tagVars, parseVars>>

\* serialize the database; its owner does so while no reader holds a
\* descriptor borrowed from it
Encode ==
    /\ snap = None
    /\ found = NoLookup
    /\ snap' = Some(SerializeDatabase(db))
    /\ UNCHANGED <<db, ops, last, written, found, dec, tagVars, parseVars>>

\* deserialize the snapshot
Decode ==
    /\ IsSome(snap)
    /\ dec = None
    /\ dec' = Some(DeserializeDatabase(snap[1]))
    /\ UNCHANGED <<db, ops, last, written, found, snap, tagVars, parseVars>>

NextDb ==
    \/ \E key \in ClassKeys, name \in ClassKeys,
          sup \in {None} \cup {Some(c) : c \in ClassKeys} :
            InsertClass(key, name, sup)
    \/ \E c \in ClassKeys, key \in PropKeys, name \in PropKeys,
          sc \in {None} \cup {Some(x) : x \in Scriptability} :
            InsertProperty(c, key, name, sc)
    \/ \E c \in ClassKeys, key \in PropKeys, value \in Variants :
            SetDefault(c, key, value)
    \/ \E i \in 1..4, n \in 0..MaxVersion : SetVersion(i, n)
    \/ \E c \in ClassKeys : LookupClass(c)
    \/ \E c \in ClassKeys, key \in PropKeys : LookupProperty(c, key)
    \/ \E c \in ClassKeys, key \in PropKeys : LookupDefault(c, key)
    \/ Encode
    \/ Decode

SpecDb == InitDb /\ [][NextDb]_vars

-----------------------------------------------------------------------------
(* Vocabulary of the properties: bits, declaration order, canonical names    *)

HasBit(x, f) == (x \div f) % 2 = 1

RECURSIVE PopCount(_)
PopCount(x) == IF x = 0 THEN 0 ELSE (x % 2) + PopCount(x \div 2)

IsSingleBit(x) == PopCount(x) = 1

DeclIndex(k, f) == CHOOSE j \in 1..Len(Decl(k)) : Decl(k)[j][2] = f

IsDeclared(k, f) == \E j \in 1..Len(Decl(k)) : Decl(k)[j][2] = f

Range(q) == {q[i] : i \in 1..Len(q)}

InDeclOrder(k, q) ==
    \A i1, i2 \in 1..Len(q) : i1 < i2 => DeclIndex(k, q[i1]) < DeclIndex(k, q[i2])

\* the declared flags at positions 1..n that are set in x, in declaration order
RECURSIVE SetFlagsBelow(_, _, _)
SetFlagsBelow(k, x, n) ==
    IF n = 0 THEN <<>>
    ELSE IF HasBit(x, Decl(k)[n][2])
         THEN Append(SetFlagsBelow(k, x, n - 1), Decl(k)[n][2])
         ELSE SetFlagsBelow(k, x, n - 1)

\* the external spelling of a declared constant: NOT_BROWSABLE is NotBrowsable
RECURSIVE CamelFrom(_, _, _)
CamelFrom(id, i, wordStart) ==
    IF i > Len(id) THEN <<>>
    ELSE IF id[i] = "_" THEN CamelFrom(id, i + 1, TRUE)
    ELSE <<IF wordStart THEN id[i] ELSE ToLower(id[i])>> \o CamelFrom(id, i + 1, FALSE)

Camel(id) == CamelFrom(id, 1, TRUE)

CanonicalNames(k) == {Camel(n) : n \in DeclNames(k)}

NotBrowsable == <<"N", "o", "t", "B", "r", "o", "w", "s", "a", "b", "l", "e">>

Hidden == <<"H", "i", "d", "d", "e", "n">>

-----------------------------------------------------------------------------
(* C1: iterating a flag set v yields exactly the declared single-bit flags   *)
(* set in v, each once, in declaration order; the sequence is as long as v   *)
(* has set bits and is non-empty iff v is nonzero; DEPRECATED | SERVICE of   *)
(* InstanceTags yields DEPRECATED then SERVICE.                              *)
C1_IterationYieldsSetFlags ==
    IsSome(outV) =>
        LET q == outV[1] IN
        /\ Len(q) = PopCount(v)
        /\ (Len(q) > 0) <=> (v # 0)
        /\ \A i \in 1..Len(q) :
              IsDeclared(kind, q[i]) /\ IsSingleBit(q[i]) /\ HasBit(v, q[i])
        /\ \A j \in 1..Len(Decl(kind)) :
              HasBit(v, Decl(kind)[j][2]) => Decl(kind)[j][2] \in Range(q)
        /\ InDeclOrder(kind, q)
        /\ (kind = "InstanceTags" /\ v = 33) => q = <<1, 32>>

C1_Witness ==
    /\ kind = "InstanceTags"
    /\ v = BitOr(InstanceTags_DEPRECATED, InstanceTags_SERVICE)
    /\ IsSome(outV)
    /\ Len(outV[1]) = 2

(* C4: iterating v | w yields exactly the union of the flags of v and of w,  *)
(* each once, in declaration order.                                          *)
C4_UnionIteration ==
    (IsSome(outV) /\ IsSome(outW) /\ IsSome(outU)) =>
        /\ Range(outU[1]) = Range(outV[1]) \cup Range(outW[1])
        /\ InDeclOrder(kind, outU[1])

C4_Witness ==
    /\ IsSome(outV) /\ IsSome(outW) /\ IsSome(outU)
    /\ Range(outV[1]) \cap Range(outW[1]) # {}
    /\ Range(outV[1]) \ Range(outW[1]) # {}
    /\ Range(outW[1]) \ Range(outV[1]) # {}
    /\ Len(outU[1]) = 3

(* C7: iterating is restartable and non-destructive: every iterator over v   *)
(* holds the bits v has, what it has yielded so far is the flags of v up to   *)
(* its own position whatever the other iterators did, and every iteration    *)
(* run to the end produced the same sequence, the flags set in v.            *)
C7_RestartableNonDestructive ==
    /\ \A q \in completed : q = SetFlagsBelow(kind, v, Len(Decl(kind)))
    /\ Cardinality(completed) <= 1
    /\ \A i \in 1..MaxIters :
          IsSome(iters[i]) =>
              /\ iters[i][1].it.self = v
              /\ iters[i][1].out = SetFlagsBelow(kind, v, iters[i][1].it.pos)

C7_Witness ==
    /\ completed # {}
    /\ \E i, j \in 1..MaxIters :
          /\ i # j
          /\ IsSome(iters[i]) /\ iters[i][1].done /\ Len(iters[i][1].out) >= 2
          /\ IsSome(iters[j]) /\ ~iters[j][1].done /\ Len(iters[j][1].out) = 1

(* C2: from_str succeeds iff the string is exactly one of the kind's         *)
(* canonical names, and gives the single-bit flag the kind declares for that *)
(* name; "NotBrowsable" is 0x2 for InstanceTags and 0x4 for PropertyTags.    *)
C2_ParseExactCanonicalName ==
    res.tag # "Unparsed" =>
        LET hits == {j \in 1..Len(Decl(kind)) : Camel(Decl(kind)[j][1]) = s} IN
        /\ (res.tag = "Ok") <=> (hits # {})
        /\ res.tag = "Ok" =>
              /\ \A j \in hits : res.flag = Decl(kind)[j][2]
              /\ IsSingleBit(res.flag)
        /\ s = NotBrowsable =>
              res.flag = IF kind = "InstanceTags" THEN 2 ELSE 4

C2_Witness ==
    /\ kind = "PropertyTags"
    /\ s = NotBrowsable
    /\ res.tag = "Ok"
    /\ res.flag = PropertyTags_NOT_BROWSABLE

(* C3: from_str of a string that is not a canonical name of the kind (the    *)
(* empty string, another case, a name of the other kind) returns an error    *)
(* that carries the string verbatim, never a flag.                           *)
C3_ErrorCarriesInput ==
    (res.tag # "Unparsed" /\ s \notin CanonicalNames(kind)) =>
        /\ res.tag = "Err"
        /\ res.err = s

C3_Witness ==
    /\ kind = "InstanceTags"
    /\ s = Hidden
    /\ res.tag = "Err"

NameToFlagBijection(k) ==
    /\ \A n \in CanonicalNames(k) :
          from_str(k, n).tag = "Ok" /\ IsDeclared(k, from_str(k, n).flag)
    /\ \A n1, n2 \in CanonicalNames(k) :
          n1 # n2 => from_str(k, n1).flag # from_str(k, n2).flag
    /\ \A j \in 1..Len(Decl(k)) :
          \E n \in CanonicalNames(k) : from_str(k, n).flag = Decl(k)[j][2]

-----------------------------------------------------------------------------
\* the encoded form of class c inside an encoded database
EncodedClass(e, c) == Field(e, "classes")[1].val[c]

Stored == {<<c, p>> \in ClassKeys \X PropKeys :
              c \in DOMAIN db.classes /\ p \in DOMAIN db.classes[c].properties}

(* C6: decoding the encoded database gives a database equal to the original  *)
(* field for field; a class without superclass has the superclass field      *)
(* omitted from the encoded form, and decodes to superclass absent.          *)
C6_SnapshotRoundTrip ==
    /\ IsSome(snap) =>
          \A c \in DOMAIN db.classes :
              (db.classes[c].superclass = None)
                  <=> (Field(EncodedClass(snap[1], c), "superclass") = None)
    /\ IsSome(dec) =>
          IF dec[1].ok THEN
              LET d == dec[1].val[1] IN
              /\ d = db
              /\ d.version = db.version
              /\ DOMAIN d.classes = DOMAIN db.classes
              /\ \A c \in DOMAIN db.classes :
                    /\ d.classes[c].name = db.classes[c].name
                    /\ d.classes[c].superclass = db.classes[c].superclass
                    /\ d.classes[c].properties = db.classes[c].properties
                    /\ d.classes[c].default_properties
                           = db.classes[c].default_properties
          ELSE FALSE

C6_Witness ==
    /\ IsSome(dec)
    /\ dec[1].ok
    /\ DOMAIN db.classes = ClassKeys
    /\ \E c \in ClassKeys : db.classes[c].superclass = None
    /\ \E c \in ClassKeys : IsSome(db.classes[c].superclass)
    /\ Stored # {}

(* C8: the constructors give valid empty objects: a new database has version *)
(* [0,0,0,0] and no classes; a new class has the given name, no superclass   *)
(* and empty properties and default_properties; a new property has the given *)
(* name and scriptability None.                                              *)
C8_ConstructorsGiveEmptyObjects ==
    /\ ops = 0 => (db.version = <<0, 0, 0, 0>> /\ DOMAIN db.classes = {})
    /\ (last.op = "InsertClass" /\ last.arg = None) =>
          LET c == db.classes[last.key] IN
          /\ c.name = last.name
          /\ c.superclass = None
          /\ DOMAIN c.properties = {}
          /\ DOMAIN c.default_properties = {}
    /\ (last.op = "InsertProperty" /\ last.arg = None) =>
          LET p == db.classes[last.class].properties[last.key] IN
          /\ p.name = last.name
          /\ ScriptabilityVariants[p.scriptability] = "None"

C8_Witness ==
    /\ last.op = "InsertProperty"
    /\ last.arg = None
    /\ db.classes[last.class].superclass = None
    /\ db.classes[last.class].properties[last.key].scriptability = Scriptability_None

(* C9 as stated: the scriptability of a property is one of exactly four      *)
(* states.                                                                   *)
C9_Original ==
    \A x \in Stored :
        /\ ScriptabilityVariants[db.classes[x[1]].properties[x[2]].scriptability]
               \in {ScriptabilityVariants[i] : i \in Scriptability}
        /\ Cardinality({ScriptabilityVariants[i] : i \in Scriptability}) = 4

(* C9 amended: the scriptability of a property is one of exactly five        *)
(* states: None, ReadWrite, Read, Write, Custom.                             *)
C9_FiveScriptabilityStates ==
    \A x \in Stored :
        /\ ScriptabilityVariants[db.classes[x[1]].properties[x[2]].scriptability]
               \in {"None", "ReadWrite", "Read", "Write", "Custom"}
        /\ Cardinality({ScriptabilityVariants[i] : i \in Scriptability}) = 5

C9_Witness ==
    \E x \in Stored :
        ScriptabilityVariants[db.classes[x[1]].properties[x[2]].scriptability] = "Custom"

(* C10: a lookup returns exactly the value of the last upsert for its key,   *)
(* not-found for a key never written, and a property lookup reads only the   *)
(* class's own properties map, never its superclass.                         *)
C10_LookupReturnsLastUpsert ==
    /\ found.q = "class" =>
          /\ IsSome(found.outcome) <=> IsSome(written.class[found.class])
          /\ IsSome(found.outcome) =>
                /\ found.outcome[1].name = written.class[found.class][1].name
                /\ found.outcome[1].superclass
                       = written.class[found.class][1].superclass
                /\ \A p \in PropKeys :
                      /\ get(found.outcome[1].properties, p)
                             = written.prop[<<found.class, p>>]
                      /\ get(found.outcome[1].default_properties, p)
                             = written.def[<<found.class, p>>]
    /\ found.q = "prop" =>
          /\ found.outcome = written.prop[<<found.class, found.key>>]
          /\ (found.class \in DOMAIN db.classes
                 /\ found.key \notin DOMAIN db.classes[found.class].properties)
                => found.outcome = None
    /\ found.q = "default" =>
          found.outcome = written.def[<<found.class, found.key>>]

C10_Witness ==
    /\ found.q = "prop"
    /\ found.outcome = None
    /\ found.class \in DOMAIN db.classes
    /\ LET sup == db.classes[found.class].superclass IN
       /\ IsSome(sup)
       /\ sup[1] # found.class
       /\ sup[1] \in DOMAIN db.classes
       /\ found.key \in DOMAIN db.classes[sup[1]].properties

=============================================================================
